---- MODULE Spec2Model ----
(***************************************************************************)
(* pingtest (src/main.rs): main resolves the output file, run starts one   *)
(* ping_target future per target and joins them, display_summary reduces   *)
(* every target's pings with compute_stats.                                *)
(*                                                                         *)
(* Time is the monotonic clock in milliseconds.  Reading the clock and     *)
(* resuming a future take no time: a future that can run does so before    *)
(* the clock moves, and the clock moves straight to the next instant at    *)
(* which an await (a probe, a sleep) completes.                            *)
(***************************************************************************)
EXTENDS Integers, Sequences, FiniteSets, TLC

(* ------------------------------ bounds --------------------------------- *)
\* Most targets on the command line.
MaxTargets == 2
\* Granularity, in ms, of the intervals, timeouts and probe durations drawn.
Step == 500
\* Intervals drawn: 0, Step, ..., MaxIntervalSteps * Step.
MaxIntervalSteps == 3
\* Timeouts drawn: Step, ..., MaxTimeoutSteps * Step, and 0 for a run of
\* duration 0, which sends no probe.
MaxTimeoutSteps == 2
\* Durations drawn: 0 .. MaxDuration seconds.
MaxDuration == 4
\* Only configurations whose run sends at most MaxPings probes, all targets
\* together, are drawn.
MaxPings == 4
\* Width of u32 in the model: the clock of a run that fits the bounds never
\* reaches 2^32 ms, so u32 is WordBits wide and the cast of line 296 wraps
\* at 2^WordBits ms.
WordBits == 11

(* ----------------------------- constants ------------------------------- *)
\* Duration::from_secs: the duration argument is in seconds.
MsPerSec == 1000
\* "-".into(): a statistic with no data.
Dash == -1
\* "100.00 %": the packet loss literal of the no-answer branch, in 1/100.
AllLost == 10000

U32Modulus == 2 ^ WordBits
\* u32::MAX, the rtt of a probe that timed out or failed.
U32Max == U32Modulus - 1

Max(a, b) == IF a >= b THEN a ELSE b

\* The addresses of the targets, in command line order.
Addresses == [i \in 1..(MaxTargets + 1) |-> i + 100]

VARIABLES
    args,        \* Args: interval, duration, timeout, out_file, out_dir, display_summary, ips_or_host_names
    main_pc,     \* where main is
    out_file,    \* main's out_file: <<>> (None) or <<path>>
    console,     \* the error messages main printed
    summary,     \* the table display_summary printed: <<>> or <<rows>>
    file,        \* what was written to the output file: <<>> or <<report>>
    now,         \* Instant::now()
    start_time,  \* run's start_time
    end_time,    \* run's end_time
    pc,          \* per ping_target future: where it is
    tick,        \* per future: the local `now` of the current iteration
    wake,        \* per future: the instant its pending await completes
    result,      \* per future: the result of the pending probe (rtt or "err")
    pings,       \* per future: the local Vec<PingResult>
    trace,       \* per future: history of <<tick start, instant read at line 312>>
    report       \* what run returned: <<>> or <<targets>>

vars == <<args, main_pc, out_file, console, summary, file, now, start_time, end_time,
          pc, tick, wake, result, pings, trace, report>>

main_vars == <<main_pc, out_file, console, summary, file, report>>
run_vars == <<start_time, end_time>>
prober_vars == <<pc, tick, wake, result, pings, trace>>

N == Len(args.ips_or_host_names)
Probers == 1..N

(* ------------------------------ inputs --------------------------------- *)
Intervals == {k * Step : k \in 0..MaxIntervalSteps}
Timeouts == {k * Step : k \in 0..MaxTimeoutSteps}
Durations == 0..MaxDuration

\* The ticks of a target are at least Max(interval, shortest probe) apart.
FitsBounds(n, interval, duration) ==
    n * duration * MsPerSec <= MaxPings * Max(interval, Step)

\* The timeout of the arguments not set on the pinger: a probe without reply
\* ends after the longest timeout instead.
ProbeOutcomesTimeoutNotSet ==
    {[takes |-> k * Step, rtt |-> k * Step] :
        k \in {j \in 0..MaxTimeoutSteps : j * Step < args.timeout
                                           /\ (args.interval = 0 => j > 0)}}
    \cup {[takes |-> (MaxTimeoutSteps + 1) * Step, rtt |-> U32Max]}

\* Time a probe takes and what it returns: a reply after less than the
\* timeout (rtt = the time taken), or an error when the timeout expires.
\* At interval 0 a probe takes at least one Step: a round trip takes time.
ProbeOutcomes ==
    {[takes |-> k * Step, rtt |-> k * Step] :
        k \in {j \in 0..MaxTimeoutSteps : j * Step < args.timeout
                                           /\ (args.interval = 0 => j > 0)}}
    \cup {[takes |-> args.timeout, rtt |-> U32Max]}

ArgsOf(n, i, d, t, of, od, ds) ==
    [interval |-> i, duration |-> d, timeout |-> t,
     out_file |-> of, out_dir |-> od, display_summary |-> ds,
     ips_or_host_names |-> SubSeq(Addresses, 1, n)]

InitRest ==
    /\ main_pc = "start"
    /\ out_file = <<>>
    /\ console = <<>>
    /\ summary = <<>>
    /\ file = <<>>
    /\ now = 0
    /\ start_time = 0
    /\ end_time = 0
    /\ pc = [p \in Probers |-> "idle"]
    /\ tick = [p \in Probers |-> 0]
    /\ wake = [p \in Probers |-> 0]
    /\ result = [p \in Probers |-> 0]
    /\ pings = [p \in Probers |-> <<>>]
    /\ trace = [p \in Probers |-> <<>>]
    /\ report = <<>>

Init ==
    /\ \E n \in 0..MaxTargets, i \in Intervals, d \in Durations, t \in Timeouts,
          of \in {"none", "free"} :
          /\ FitsBounds(n, i, d)
          /\ t = 0 => d = 0
          /\ args = ArgsOf(n, i, d, t, of, "none", TRUE)
    /\ InitRest

(* ------------------------------- main ---------------------------------- *)
\* resolve_out_file: <<"ok", path>> or <<"err", message>>.
resolve_out_file ==
    IF args.out_file # "none"
    THEN CASE args.out_file = "file" -> <<"err", "File already exists.">>
           [] args.out_file = "dir" -> <<"err", "is a directory.">>
           [] OTHER -> <<"ok", "out_file">>
    ELSE IF args.out_dir # "none"
         THEN CASE args.out_dir = "dir" -> <<"ok", "generated">>
                [] args.out_dir = "dir_taken" -> <<"err", "Unable to generate file name.">>
                [] args.out_dir = "file" -> <<"err", "is a file.">>
                [] OTHER -> <<"err", "Directory doesn't exist.">>
         ELSE <<"err", "Unable to resolve out file">>

\* The error is printed and main goes on: the return is missing.
ResolveOutNoReturn ==
    /\ main_pc = "start"
    /\ IF args.out_dir # "none" \/ args.out_file # "none"
       THEN LET r == resolve_out_file
            IN IF r[1] = "ok"
               THEN /\ out_file' = <<r[2]>>
                    /\ console' = console
               ELSE /\ console' = Append(console, r[2])
                    /\ out_file' = out_file
       ELSE UNCHANGED <<out_file, console>>
    /\ main_pc' = "resolved"
    /\ UNCHANGED <<args, summary, file, report, now, run_vars, prober_vars>>

\* main, lines 123-133: the output file is resolved before run is called.
ResolveOut ==
    /\ main_pc = "start"
    /\ IF args.out_dir # "none" \/ args.out_file # "none"
       THEN LET r == resolve_out_file
            IN IF r[1] = "ok"
               THEN /\ out_file' = <<r[2]>>
                    /\ main_pc' = "resolved"
                    /\ console' = console
               ELSE /\ console' = Append(console, r[2])
                    /\ main_pc' = "returned"
                    /\ out_file' = out_file
       ELSE /\ main_pc' = "resolved"
            /\ UNCHANGED <<out_file, console>>
    /\ UNCHANGED <<args, summary, file, report, now, run_vars, prober_vars>>

\* run, lines 247-263: the instants are computed once and every future is made.
RunStart ==
    /\ main_pc = "resolved"
    /\ start_time' = now
    /\ end_time' = now + args.duration * MsPerSec
    /\ pc' = [p \in Probers |-> "top"]
    /\ main_pc' = "running"
    /\ UNCHANGED <<args, out_file, console, summary, file, report, now, tick, wake, result, pings, trace>>

(* ---------------------------- ping_target ------------------------------ *)
\* The futures polled one after another: a future only once those before it
\* have finished.
RunnableInTurn(p) == pc[p] # "done" /\ \A q \in 1..(p - 1) : pc[q] = "done"

\* join_all polls every future that has not finished.
Runnable(p) == pc[p] # "done"

\* started_at: as_millis() as u32.
StartedAt(t) == (t - start_time) % U32Modulus

\* The loop left only after end_time: a probe is still sent at end_time itself.
LoopTopAfterEnd(p) ==
    /\ main_pc = "running"
    /\ pc[p] = "top"
    /\ tick' = [tick EXCEPT ![p] = now]
    /\ \/ /\ now > end_time
          /\ pc' = [pc EXCEPT ![p] = "done"]
          /\ UNCHANGED <<wake, result>>
       \/ /\ now <= end_time
          /\ \E o \in ProbeOutcomes :
                /\ wake' = [wake EXCEPT ![p] = now + o.takes]
                /\ result' = [result EXCEPT ![p] = o.rtt]
          /\ pc' = [pc EXCEPT ![p] = "probing"]
    /\ UNCHANGED <<args, main_vars, now, run_vars, pings, trace>>

\* Lines 291-298: the loop top reads the clock, leaves at or after end_time,
\* else sends one probe and awaits it.
LoopTop(p) ==
    /\ main_pc = "running"
    /\ Runnable(p)
    /\ pc[p] = "top"
    /\ tick' = [tick EXCEPT ![p] = now]
    /\ \/ /\ now >= end_time
          /\ pc' = [pc EXCEPT ![p] = "done"]
          /\ UNCHANGED <<wake, result>>
       \/ /\ now < end_time
          /\ \E o \in ProbeOutcomes :
                /\ wake' = [wake EXCEPT ![p] = now + o.takes]
                /\ result' = [result EXCEPT ![p] = o.rtt]
          /\ pc' = [pc EXCEPT ![p] = "probing"]
    /\ UNCHANGED <<args, main_vars, now, run_vars, pings, trace>>

\* The whole interval slept after the probe, whatever time the probe took.
RemainingFullInterval(p) == args.interval

\* The distance between the end of the interval and the clock, on either side.
RemainingAbsDiff(p) ==
    LET d == tick[p] + args.interval - now
    IN IF d < 0 THEN -d ELSE d

\* now + *interval - Instant::now(): the subtraction of instants saturates at 0.
Remaining(p) == Max(tick[p] + args.interval - now, 0)

\* A probe that gets no reply never resumes the future: no timeout is armed.
ProbeReturnNoTimeout(p) ==
    /\ main_pc = "running"
    /\ pc[p] = "probing"
    /\ now >= wake[p]
    /\ result[p] # U32Max
    /\ pings' = [pings EXCEPT ![p] =
                    Append(@, [started_at |-> (tick[p] - start_time) % U32Modulus,
                               rtt |-> result[p]])]
    /\ trace' = [trace EXCEPT ![p] = Append(@, <<tick[p], now>>)]
    /\ IF tick[p] + args.interval > now
       THEN /\ pc' = [pc EXCEPT ![p] = "sleeping"]
            /\ wake' = [wake EXCEPT ![p] = tick[p] + args.interval]
       ELSE /\ pc' = [pc EXCEPT ![p] = "top"]
            /\ wake' = wake
    /\ UNCHANGED <<args, main_vars, now, run_vars, tick, result>>

\* An error of the probe ends the loop: Err(_) => break.
ProbeReturnErrorBreaks(p) ==
    /\ main_pc = "running"
    /\ pc[p] = "probing"
    /\ now >= wake[p]
    /\ IF result[p] = U32Max
       THEN /\ pc' = [pc EXCEPT ![p] = "done"]
            /\ UNCHANGED <<pings, trace, wake>>
       ELSE /\ pings' = [pings EXCEPT ![p] =
                    Append(@, [started_at |-> (tick[p] - start_time) % U32Modulus,
                               rtt |-> result[p]])]
            /\ trace' = [trace EXCEPT ![p] = Append(@, <<tick[p], now>>)]
            /\ IF tick[p] + args.interval > now
               THEN /\ pc' = [pc EXCEPT ![p] = "sleeping"]
                    /\ wake' = [wake EXCEPT ![p] = tick[p] + args.interval]
               ELSE /\ pc' = [pc EXCEPT ![p] = "top"]
                    /\ wake' = wake
    /\ UNCHANGED <<args, main_vars, now, run_vars, tick, result>>

\* One Vec of pings shared by the futures: a push shows in every target's pings.
ProbeReturnSharedPings(p) ==
    /\ main_pc = "running"
    /\ pc[p] = "probing"
    /\ now >= wake[p]
    /\ pings' = [q \in Probers |->
                    Append(pings[q], [started_at |-> (tick[p] - start_time) % U32Modulus,
                                      rtt |-> result[p]])]
    /\ trace' = [trace EXCEPT ![p] = Append(@, <<tick[p], now>>)]
    /\ IF tick[p] + args.interval > now
       THEN /\ pc' = [pc EXCEPT ![p] = "sleeping"]
            /\ wake' = [wake EXCEPT ![p] = tick[p] + args.interval]
       ELSE /\ pc' = [pc EXCEPT ![p] = "top"]
            /\ wake' = wake
    /\ UNCHANGED <<args, main_vars, now, run_vars, tick, result>>

\* Lines 298-316: the probe returned; its result, or u32::MAX for an error, is
\* pushed, and the future sleeps what remains of the interval, if anything.
ProbeReturn(p) ==
    /\ main_pc = "running"
    /\ Runnable(p)
    /\ pc[p] = "probing"
    /\ now >= wake[p]
    /\ pings' = [pings EXCEPT ![p] =
                    Append(@, [started_at |-> StartedAt(tick[p]), rtt |-> result[p]])]
    /\ trace' = [trace EXCEPT ![p] = Append(@, <<tick[p], now>>)]
    /\ IF Remaining(p) # 0
       THEN /\ pc' = [pc EXCEPT ![p] = "sleeping"]
            /\ wake' = [wake EXCEPT ![p] = now + Remaining(p)]
       ELSE /\ pc' = [pc EXCEPT ![p] = "top"]
            /\ wake' = wake
    /\ UNCHANGED <<args, main_vars, now, run_vars, tick, result>>

\* Line 315: the sleep is over.
Wake(p) ==
    /\ main_pc = "running"
    /\ Runnable(p)
    /\ pc[p] = "sleeping"
    /\ now >= wake[p]
    /\ pc' = [pc EXCEPT ![p] = "top"]
    /\ UNCHANGED <<args, main_vars, now, run_vars, tick, wake, result, pings, trace>>

\* A future that can run now.
Ready(p) ==
    /\ Runnable(p)
    /\ \/ pc[p] = "top"
       \/ pc[p] \in {"probing", "sleeping"} /\ now >= wake[p]

Waiting == {p \in Probers : Runnable(p) /\ pc[p] \in {"probing", "sleeping"}}

\* The next instant at which an await completes.
NextWake == CHOOSE t \in {wake[p] : p \in Waiting} :
                \A p \in Waiting : t <= wake[p]

\* Time passes while every future is suspended.
Advance ==
    /\ main_pc = "running"
    /\ Waiting # {}
    /\ \A p \in Probers : ~Ready(p)
    /\ now' = NextWake
    /\ UNCHANGED <<args, main_vars, run_vars, prober_vars>>

(* ----------------------------- run, main ------------------------------- *)
TargetReportOf(p) == [ip |-> args.ips_or_host_names[p], pings |-> pings[p]]

\* The outputs in the order in which the futures finished.
JoinByCompletion ==
    LET before(q, r) == tick[q] < tick[r] \/ (tick[q] = tick[r] /\ q < r)
        rank(r) == Cardinality({q \in Probers : before(q, r)}) + 1
    IN [i \in Probers |-> TargetReportOf(CHOOSE r \in Probers : rank(r) = i)]

\* join_all: the outputs in the order of the futures.
JoinAll == [p \in Probers |-> TargetReportOf(p)]

\* run, lines 265-272: every future has finished; the Report is built.
Join ==
    /\ main_pc = "running"
    /\ \A p \in Probers : pc[p] = "done"
    /\ report' = <<JoinAll>>
    /\ main_pc' = "joined"
    /\ UNCHANGED <<args, out_file, console, summary, file, now, run_vars, prober_vars>>

\* main, lines 137-140: the report is written when an output file was
\* resolved; a failed write is ignored.
WriteReport ==
    /\ main_pc = "joined"
    /\ IF out_file # <<>>
       THEN \/ file' = <<report[1]>>
            \/ file' = file
       ELSE file' = file
    /\ main_pc' = "written"
    /\ UNCHANGED <<args, out_file, console, summary, report, now, run_vars, prober_vars>>

(* --------------------------- display_summary --------------------------- *)
RECURSIVE Insert(_, _)
Insert(x, s) ==
    IF s = <<>> THEN <<x>>
    ELSE IF x <= Head(s) THEN <<x>> \o s
    ELSE <<Head(s)>> \o Insert(x, Tail(s))

RECURSIVE SortAsc(_)
SortAsc(s) == IF s = <<>> THEN <<>> ELSE Insert(Head(s), SortAsc(Tail(s)))

\* The rtts left in the order of the pings: the sort is missing.
NotSorted(s) == s

\* pings.sort(): ascending.
Sorted(s) == SortAsc(s)

RECURSIVE Bisect(_, _, _)
\* The binary search of partition_point for the predicate p < u32::MAX.
Bisect(s, left, right) ==
    IF left >= right THEN left
    ELSE LET mid == left + (right - left) \div 2
         IN IF s[mid + 1] < U32Max
            THEN Bisect(s, mid + 1, right)
            ELSE Bisect(s, left, mid)

\* Every ping but the one pushed at line 167 counted as in time.
PartitionPointAllInTime(s) == Len(s) - 1

PartitionPoint(s) == Bisect(s, 0, Len(s))

\* The share of the other part, den - num of den, formatted.
Format2OfRest(num, den) == (200 * (den - num) + den) \div (2 * den)

\* format!("{:>6.2} %", x) of x = num / den, in 1/100: two decimals, rounded.
Format2(num, den) == (200 * num + den) \div (2 * den)

\* The index of the last but one percent: the 95 % rounded up.
P95IndexRoundedUp(len) == (len * 95 + 99) \div 100

\* (len as f64 * 0.95) as usize
P95Index(len) == (len * 95) \div 100

\* The lower of the two middle indices.
MedianIndexLower(len) == (len - 1) \div 2

\* in_time.len() / 2
MedianIndex(len) == len \div 2

\* compute_stats, lines 164-195.
compute_stats(t) ==
    LET rtts == [i \in 1..Len(t.pings) |-> t.pings[i].rtt]
        sorted == Append(Sorted(rtts), U32Max)
        idx == PartitionPoint(sorted)
        in_time == SubSeq(sorted, 1, idx)
        ping_count == Len(sorted) - 1
    IN IF in_time = <<>>
       THEN [ip |-> t.ip, pings |-> ping_count, packet_loss |-> AllLost,
             min |-> Dash, median |-> Dash, per95 |-> Dash, max |-> Dash]
       ELSE [ip |-> t.ip, pings |-> ping_count,
             packet_loss |-> Format2(ping_count - Len(in_time), ping_count),
             min |-> in_time[1],
             median |-> in_time[MedianIndex(Len(in_time)) + 1],
             per95 |-> in_time[P95Index(Len(in_time)) + 1],
             max |-> in_time[Len(in_time)]]

\* main, lines 142-144, and display_summary: one row per target of the report.
DisplaySummary ==
    /\ main_pc = "written"
    /\ IF args.display_summary
       THEN summary' = <<[i \in 1..Len(report[1]) |-> compute_stats(report[1][i])]>>
       ELSE summary' = summary
    /\ main_pc' = "returned"
    /\ UNCHANGED <<args, out_file, console, file, report, now, run_vars, prober_vars>>

Next ==
    \/ ResolveOut
    \/ RunStart
    \/ \E p \in Probers : LoopTop(p)
    \/ \E p \in Probers : ProbeReturn(p)
    \/ \E p \in Probers : Wake(p)
    \/ Advance
    \/ Join
    \/ WriteReport
    \/ DisplaySummary

Spec == Init /\ [][Next]_vars

\* The executor resumes a future that can run, run and main go on when they
\* can, and time passes: no enabled step is put off forever.
FairSpec == Spec /\ WF_vars(Next)

(* ------------------- the output location, every case ------------------- *)
OutFileStates == {"none", "free", "file", "dir"}
OutDirStates == {"none", "dir", "dir_taken", "file", "absent"}

\* One target and a short run, under every state of the output location.
InitOut ==
    /\ \E n \in 1..MaxTargets, of \in OutFileStates, od \in OutDirStates, ds \in BOOLEAN :
          args = ArgsOf(n, Step, 1, Step, of, od, ds)
    /\ InitRest

SpecOut == InitOut /\ [][Next]_vars

(* ---------------------- the targets, as typed ------------------------- *)
\* IPv6 addresses a lookup may return; Addresses are IPv4.
AddressesV6 == [i \in 1..(MaxTargets + 1) |-> i + 200]

is_ipv4(ip) == \E i \in DOMAIN Addresses : Addresses[i] = ip

\* What can stand at position i of the command line: a literal IP, or a name
\* with the addresses lookup_host gives for it, none when the lookup fails.
Tokens(i) ==
    {[literal |-> TRUE, ips |-> <<Addresses[i]>>]}
    \cup {[literal |-> FALSE, ips |-> l] :
             l \in {<<>>, <<Addresses[i]>>, <<AddressesV6[i]>>,
                    <<AddressesV6[i], Addresses[i]>>}}

\* resolve_target: <<"ok", ip>> or <<"err", message>>. A literal is its IP; a
\* name is the first IPv4 address of its lookup, else the first address.
resolve_target(s) ==
    IF s.literal THEN <<"ok", s.ips[1]>>
    ELSE LET v4 == SelectSeq(s.ips, is_ipv4)
         IN IF s.ips = <<>> THEN <<"err", "is not a valid IP or host name">>
            ELSE IF v4 # <<>> THEN <<"ok", v4[1]>>
            ELSE <<"ok", s.ips[1]>>

\* Args::parse() with value_parser = resolve_target: every target string goes
\* through resolve_target; the first error is printed and the process exits,
\* else args holds the Targets. Until then ips_or_host_names stands for the
\* strings typed.
ParseArgs ==
    /\ main_pc = "parse"
    /\ LET r == [i \in Probers |-> resolve_target(args.ips_or_host_names[i])]
           bad == {i \in Probers : r[i][1] = "err"}
       IN IF bad = {}
          THEN /\ args' = [args EXCEPT !.ips_or_host_names = [i \in Probers |-> r[i][2]]]
               /\ main_pc' = "start"
               /\ console' = console
          ELSE /\ console' = Append(console, r[CHOOSE i \in bad : \A j \in bad : i <= j][2])
               /\ main_pc' = "exited"
               /\ args' = args
    /\ UNCHANGED <<out_file, summary, file, report, now, run_vars, prober_vars>>

\* Short runs of targets typed in every way.
InitParse ==
    /\ \E n \in 1..MaxTargets, of \in {"none", "free"} :
          \E ts \in [1..n -> UNION {Tokens(i) : i \in 1..MaxTargets}] :
              /\ \A i \in 1..n : ts[i] \in Tokens(i)
              /\ args = [ArgsOf(n, Step, 1, Step, of, "none", TRUE)
                            EXCEPT !.ips_or_host_names = ts]
    /\ main_pc = "parse"
    /\ out_file = <<>>
    /\ console = <<>>
    /\ summary = <<>>
    /\ file = <<>>
    /\ now = 0
    /\ start_time = 0
    /\ end_time = 0
    /\ pc = [p \in Probers |-> "idle"]
    /\ tick = [p \in Probers |-> 0]
    /\ wake = [p \in Probers |-> 0]
    /\ result = [p \in Probers |-> 0]
    /\ pings = [p \in Probers |-> <<>>]
    /\ trace = [p \in Probers |-> <<>>]
    /\ report = <<>>

NextParse ==
    \/ ParseArgs
    \/ Next

SpecParse == InitParse /\ [][NextParse]_vars

(* ----------------- the summary of any sequence of pings ---------------- *)
\* Longest sequence of pings drawn for a summary.
MaxSamples == 4

\* rtts drawn: a reply within less than StatsTimeout, or u32::MAX.
RttValues == {k * Step : k \in 0..MaxTimeoutSteps} \cup {U32Max}

RttSeqs == UNION {[1..n -> RttValues] : n \in 0..MaxSamples}

\* Length of the long sequences drawn: from 21 answered samples on the p95 is
\* not the last of the sorted rtts, and one more sample can be a timeout.
LongSamples == 22

\* Long sequences: timeouts first, then the answered rtts in descending order.
LongSeqs ==
    {[i \in 1..LongSamples |->
         IF i <= c[1] THEN U32Max
         ELSE IF i <= c[2] THEN 2 * Step
         ELSE IF i <= c[3] THEN Step
         ELSE 0] :
       c \in {d \in [1..3 -> 0..LongSamples] : d[1] <= d[2] /\ d[2] <= d[3]}}

StatsTimeout == (MaxTimeoutSteps + 1) * Step
StatsInterval == Max(StatsTimeout, MsPerSec)
StatsDuration(n) ==
    IF n = 0 THEN 0 ELSE ((n - 1) * StatsInterval) \div MsPerSec + 1

\* main after run returned: one target, probed once per StatsInterval from
\* instant 0, whose probes returned the rtts drawn.
InitStats ==
    \E rtts \in RttSeqs \cup LongSeqs, of \in {"none", "free"}, ds \in BOOLEAN :
        LET n == Len(rtts)
            took(i) == IF rtts[i] = U32Max THEN StatsTimeout ELSE rtts[i]
            at(i) == (i - 1) * StatsInterval
            ps == [i \in 1..n |-> [started_at |-> at(i) % U32Modulus, rtt |-> rtts[i]]]
        IN /\ args = ArgsOf(1, StatsInterval, StatsDuration(n), StatsTimeout, of, "none", ds)
           /\ main_pc = "joined"
           /\ out_file = IF of = "none" THEN <<>> ELSE <<"out_file">>
           /\ console = <<>>
           /\ summary = <<>>
           /\ file = <<>>
           /\ now = n * StatsInterval
           /\ start_time = 0
           /\ end_time = StatsDuration(n) * MsPerSec
           /\ pc = <<"done">>
           /\ tick = <<n * StatsInterval>>
           /\ wake = <<n * StatsInterval>>
           /\ result = <<IF n = 0 THEN 0 ELSE rtts[n]>>
           /\ pings = <<ps>>
           /\ trace = <<[i \in 1..n |-> <<at(i), at(i) + took(i)>>]>>
           /\ report = <<(<<[ip |-> Addresses[1], pings |-> ps]>>)>>

NextStats ==
    \/ WriteReport
    \/ DisplaySummary

SpecStats == InitStats /\ [][NextStats]_vars

(* ============================== claims ================================= *)
DurationMs == args.duration * MsPerSec

\* ping_target of target p has returned.
Returned(p) == pc[p] = "done"

\* Every probe of target p so far returned within the interval.
OnTime(p) == \A i \in 1..Len(trace[p]) : trace[p][i][2] <= trace[p][i][1] + args.interval

\* Some probe of target p took longer than the interval.
Overran(p) == \E i \in 1..Len(trace[p]) : trace[p][i][2] > trace[p][i][1] + args.interval

Abs(x) == IF x < 0 THEN -x ELSE x

\* C1 as stated: when ping_target returns (interval > 0), the number of
\* samples differs from floor(duration / interval) by at most 1.
C1_CountWithinOneOfFloor ==
    \A p \in Probers :
        (Returned(p) /\ args.interval > 0) =>
            Abs(Len(pings[p]) - DurationMs \div args.interval) <= 1

\* C1 amended: when ping_target returns (interval > 0), the number of samples
\* is at most ceil(duration / interval), so at most floor + 1, and at least 1
\* when duration > 0; it is at least floor(duration / interval) when every
\* probe returned within the interval.
C1_CountBounds ==
    \A p \in Probers :
        (Returned(p) /\ args.interval > 0) =>
            /\ (Len(pings[p]) - 1) * args.interval < DurationMs \/ Len(pings[p]) = 0
            /\ Len(pings[p]) <= DurationMs \div args.interval + 1
            /\ DurationMs > 0 => Len(pings[p]) >= 1
            /\ OnTime(p) => Len(pings[p]) >= DurationMs \div args.interval

\* C1 witness: a target whose probes overran ends more than one sample short
\* of floor(duration / interval).
C1_Witness ==
    \E p \in Probers :
        /\ Returned(p) /\ args.interval > 0 /\ Overran(p)
        /\ Len(pings[p]) < DurationMs \div args.interval - 1

\* C2 as stated: the started_at values of a target's samples are
\* non-decreasing in sequence order and each is at most the duration in ms.
C2_StartedAtOrderedAndBounded ==
    \A p \in Probers :
        \A i \in 1..Len(pings[p]) :
            /\ pings[p][i].started_at <= DurationMs
            /\ i > 1 => pings[p][i - 1].started_at <= pings[p][i].started_at

\* The tick that follows the ticks of target p so far, on p's own schedule:
\* the run's start, then one interval after the last tick's start or, if
\* later, when the last probe returned.
OwnNextTick(p) ==
    IF trace[p] = <<>> THEN start_time
    ELSE LET last == trace[p][Len(trace[p])]
         IN Max(last[1] + args.interval, last[2])

\* C3: every target is probed on its own schedule, whatever the other targets'
\* probes do: its first tick starts at the run's start, each later tick one
\* interval after the one before or when that one's own probe returned, if
\* later; a probe holds its future for at most the timeout; ping_target
\* returns at the first such instant at or after end_time; and a target whose
\* probes all returned within the interval gets the full ceil(duration /
\* interval) samples.
C3_OwnSchedule ==
    \A p \in Probers :
        LET tr == trace[p]
        IN /\ Len(pings[p]) = Len(tr)
           /\ \A i \in 1..Len(tr) :
                 /\ tr[i][1] = IF i = 1 THEN start_time
                               ELSE Max(tr[i - 1][1] + args.interval, tr[i - 1][2])
                 /\ tr[i][1] < end_time
                 /\ tr[i][2] <= tr[i][1] + args.timeout
           /\ pc[p] = "probing" => tick[p] = OwnNextTick(p)
           /\ pc[p] = "top" => now = OwnNextTick(p)
           /\ Returned(p) => tick[p] = OwnNextTick(p) /\ tick[p] >= end_time
           /\ (Returned(p) /\ OnTime(p) /\ args.interval > 0) =>
                 Len(pings[p]) * args.interval >= DurationMs

\* C3 witness: two targets have returned; the probes of the first overran its
\* interval, the second has a full-length sequence of more samples.
C3_Witness ==
    /\ N >= 2
    /\ Returned(1) /\ Returned(2)
    /\ Overran(1) /\ OnTime(2)
    /\ args.interval > 0
    /\ Len(pings[2]) > Len(pings[1])
    /\ Len(pings[2]) * args.interval >= DurationMs

\* C4: when time advances and every probe returns within the timeout, every
\* ping_target leaves its loop and main gets the Report and returns, for every
\* interval (0 too), duration (0 too) and number of targets.
C4_RunReturns == <>(main_pc = "returned" /\ report # <<>> /\ \A p \in Probers : Returned(p))

\* C4 witness: a run of two targets at interval 0 has returned, with samples.
C4_Witness ==
    /\ main_pc = "returned" /\ report # <<>>
    /\ args.interval = 0 /\ N = 2
    /\ \A p \in Probers : Returned(p) /\ Len(pings[p]) >= 2

\* C5: a probe that timed out or failed adds exactly one sample, with the
\* tick's started_at and rtt = u32::MAX, and the future goes on as after any
\* probe: it sleeps to one interval after the tick's start, or is back at the
\* loop top if that instant has passed. A probe is only sent from the loop
\* top, at least one interval after the tick before (no retry), and a future
\* finishes only at or after end_time.
C5_ErrorIsOneSample ==
    [][\A p \in Probers :
        /\ (pc[p] = "probing" /\ result[p] = U32Max /\ pc'[p] # "probing") =>
              /\ pings'[p] = Append(pings[p], [started_at |-> StartedAt(tick[p]),
                                                 rtt |-> U32Max])
              /\ IF now < tick[p] + args.interval
                 THEN pc'[p] = "sleeping" /\ wake'[p] = tick[p] + args.interval
                 ELSE pc'[p] = "top"
        /\ (pc[p] # "probing" /\ pc'[p] = "probing") =>
              /\ pc[p] = "top"
              /\ pings'[p] = pings[p]
              /\ trace[p] # <<>> =>
                    now >= trace[p][Len(trace[p])][1] + args.interval
        /\ (pc[p] # "done" /\ pc'[p] = "done") => now >= end_time
      ]_vars

\* C5 witness: a target that has returned has a timeout sample followed by
\* an answered one.
C5_Witness ==
    \E p \in Probers :
        /\ Returned(p)
        /\ \E i \in 1..(Len(pings[p]) - 1) :
              pings[p][i].rtt = U32Max /\ pings[p][i + 1].rtt # U32Max

\* C6: once the Report exists every ping_target has returned, and the Report
\* has one entry per target, in command line order, with that target's pings.
C6_ReportInInputOrder ==
    report # <<>> =>
        /\ \A p \in Probers : Returned(p)
        /\ Len(report[1]) = N
        /\ \A i \in 1..N :
              /\ report[1][i].ip = args.ips_or_host_names[i]
              /\ report[1][i].pings = pings[i]

\* C6 witness: a Report of two targets of which the second finished first,
\* with other pings than the first.
C6_Witness ==
    /\ report # <<>> /\ N = 2
    /\ tick[2] < tick[1]
    /\ pings[1] # pings[2]

\* The output location asked for cannot be used.
OutFails ==
    \/ args.out_file \in {"file", "dir"}
    \/ args.out_file = "none" /\ args.out_dir \in {"dir_taken", "file", "absent"}

\* C7: when the output location cannot be used, main prints the error and
\* returns: no probe is sent, no file written, no summary printed. The
\* explicit file decides when both are given: a free file is taken whatever
\* the directory is, and an unusable file fails though the directory is fine.
C7_OutputErrorAborts ==
    /\ OutFails =>
          /\ main_pc \in {"start", "returned"}
          /\ main_pc = "returned" => Len(console) = 1
          /\ \A p \in Probers : pc[p] = "idle" /\ pings[p] = <<>> /\ trace[p] = <<>>
          /\ report = <<>> /\ file = <<>> /\ summary = <<>>
    /\ (args.out_file = "free" /\ main_pc # "start") =>
          out_file = <<"out_file">> /\ console = <<>>
    /\ (~OutFails /\ main_pc # "start") => console = <<>>

\* C7 witness: main has returned with the error of an existing output file,
\* though a usable output directory was given too.
C7_Witness ==
    /\ main_pc = "returned"
    /\ args.out_file = "file" /\ args.out_dir = "dir"
    /\ console = <<"File already exists.">>

\* The printed row of target i and the pings it was computed from.
Row(i) == summary[1][i]
PingsOf(i) == report[1][i].pings
AllTimedOut(ps) == \A j \in 1..Len(ps) : ps[j].rtt = U32Max
NoneTimedOut(ps) == \A j \in 1..Len(ps) : ps[j].rtt # U32Max

\* The packet loss of a row is the printed percentage in 1/100 of a percent:
\* AllLost is 100.00 %, the fraction 1.0, and 0 is 0.00 %, the fraction 0.0.
LossInRange(r) == 0 <= r.packet_loss /\ r.packet_loss <= AllLost

C9_NoSamplesRendersDash ==
    summary # <<>> =>
        \A i \in 1..Len(summary[1]) :
            PingsOf(i) = <<>> => Row(i).packet_loss = Dash

\* C10: in the row of a target with at least one answered sample the four
\* statistics are values, not "-", and min <= median <= p95 <= max.
C10_StatsOrdered ==
    summary # <<>> =>
        \A i \in 1..Len(summary[1]) :
            ~AllTimedOut(PingsOf(i)) =>
                /\ Row(i).min # Dash
                /\ Row(i).min <= Row(i).median
                /\ Row(i).median <= Row(i).per95
                /\ Row(i).per95 <= Row(i).max
                /\ Row(i).max < U32Max

\* C10 witness: a row computed from pings that were not in ascending order of
\* rtt, with a timeout among them, whose min, median and max all differ.
C10_Witness ==
    /\ summary # <<>>
    /\ \E i \in 1..Len(summary[1]) :
          /\ Len(PingsOf(i)) >= 4
          /\ PingsOf(i)[1].rtt > PingsOf(i)[Len(PingsOf(i))].rtt
          /\ ~NoneTimedOut(PingsOf(i))
          /\ Row(i).min < Row(i).median /\ Row(i).median < Row(i).max

\* Largest number of answered samples for which the indices are computed.
MaxAnswered == 200

IsAnswered(rtt) == rtt # U32Max

\* The rtts of the answered pings of target i, in the order of the pings.
AnsweredOf(i) ==
    SelectSeq([j \in 1..Len(PingsOf(i)) |-> PingsOf(i)[j].rtt], IsAnswered)

\* C11: for every number k >= 1 of answered samples the indices compute_stats
\* uses for the median and the p95 are within 0..k-1; the median and the p95
\* of a printed row are rtts of answered samples, and for k = 1 both are the
\* single answered rtt.
C11_IndicesInRange ==
    /\ \A k \in 1..MaxAnswered :
          /\ MedianIndex(k) \in 0..(k - 1)
          /\ P95Index(k) \in 0..(k - 1)
    /\ summary # <<>> =>
          \A i \in 1..Len(summary[1]) :
              LET a == AnsweredOf(i)
              IN Len(a) >= 1 =>
                    /\ \E j \in 1..Len(a) : Row(i).median = a[j]
                    /\ \E j \in 1..Len(a) : Row(i).per95 = a[j]
                    /\ Len(a) = 1 => Row(i).per95 = a[1] /\ Row(i).median = a[1]

\* C11 witness: a row of a target with exactly one answered sample among
\* timed out ones, whose p95 is that sample's rtt.
C11_Witness ==
    /\ summary # <<>>
    /\ \E i \in 1..Len(summary[1]) :
          /\ Len(AnsweredOf(i)) = 1
          /\ Len(PingsOf(i)) >= 3
          /\ Row(i).per95 = AnsweredOf(i)[1]
          /\ Row(i).per95 > 0

\* The probe of the i-th tick of target p returned only when the timeout expired.
TimedOut(p, i) == trace[p][i][2] - trace[p][i][1] >= args.timeout

\* C12: a probe that times out is recorded with rtt = u32::MAX, so a target
\* whose every probe times out has only such samples; the row of a target with
\* n >= 1 samples, all timed out, shows 100.00 % packet loss and "-" for min,
\* median, p95 and max; and no row shows u32::MAX as min, median, p95 or max.
C12_AllTimedOutRow ==
    /\ \A p \in Probers :
          \A i \in 1..Len(pings[p]) :
              TimedOut(p, i) <=> pings[p][i].rtt = U32Max
    /\ summary # <<>> =>
          \A i \in 1..Len(summary[1]) :
              /\ (PingsOf(i) # <<>> /\ \A j \in 1..Len(PingsOf(i)) : TimedOut(i, j)) =>
                    /\ Row(i).pings = Len(PingsOf(i))
                    /\ Row(i).packet_loss = AllLost
                    /\ Row(i).min = Dash /\ Row(i).median = Dash
                    /\ Row(i).per95 = Dash /\ Row(i).max = Dash
              /\ Row(i).min # U32Max /\ Row(i).median # U32Max
              /\ Row(i).per95 # U32Max /\ Row(i).max # U32Max

\* C12 witness: the row of a target whose probes, more than one, all timed
\* out, next to a target with an answered probe.
C12_Witness ==
    /\ summary # <<>> /\ N = 2
    /\ Len(pings[1]) >= 2
    /\ \A j \in 1..Len(pings[1]) : TimedOut(1, j) /\ pings[1][j].rtt = U32Max
    /\ Row(1).packet_loss = AllLost /\ Row(1).max = Dash
    /\ Row(2).max # Dash

\* 100 * lost / n as a number with two decimals, in 1/100 like packet_loss.
PercentOf(lost, n) == (20000 * lost + n) \div (2 * n)

\* C13 as stated: the packet loss of a row of a target with n >= 1 samples, k
\* of them answered, is the percentage 100 * (n - k) / n, for k = 0 and for
\* k >= 1 alike.
C13_LossIsPercentage ==
    summary # <<>> =>
        \A i \in 1..Len(summary[1]) :
            LET n == Len(PingsOf(i))
                k == Len(AnsweredOf(i))
            IN n >= 1 => Row(i).packet_loss = PercentOf(n - k, n)

\* The target string at position i resolves.
Resolves(i) == resolve_target(args.ips_or_host_names[i])[1] = "ok"

\* C14 as stated: when a target string fails to resolve and the process is
\* over, the one failure was reported, the failing target was not probed and
\* every target that resolves was probed (duration > 0).
C14_UnresolvedTargetExcluded ==
    main_pc = "exited" =>
        /\ Len(console) = 1
        /\ \A i \in Probers :
              /\ ~Resolves(i) => pings[i] = <<>>
              /\ (Resolves(i) /\ args.duration > 0) => pings[i] # <<>>

\* The probe of the i-th tick of target p returned after the tick's interval.
OverranAt(p, i) == trace[p][i][2] > trace[p][i][1] + args.interval

\* C15: a probe that takes longer than the interval still gives the sample of
\* its tick, and the next tick starts at the instant that probe returned: the
\* future does not sleep, and it finishes only at or after end_time. There is
\* one sample per tick and two ticks are never less than an interval apart,
\* so no probes are sent back to back for the ticks missed.
C15_OverrunNoCatchUp ==
    \A p \in Probers :
        LET tr == trace[p]
        IN /\ Len(pings[p]) = Len(tr)
           /\ \A i \in 1..Len(tr) :
                 /\ pings[p][i].started_at = StartedAt(tr[i][1])
                 /\ i < Len(tr) => tr[i + 1][1] >= tr[i][1] + args.interval
                 /\ OverranAt(p, i) =>
                       /\ i < Len(tr) => tr[i + 1][1] = tr[i][2]
                       /\ i = Len(tr) =>
                             /\ pc[p] \in {"top", "probing", "done"}
                             /\ pc[p] = "top" => now = tr[i][2]
                             /\ pc[p] = "probing" => tick[p] = tr[i][2]
                             /\ pc[p] = "done" => tick[p] = tr[i][2] /\ tick[p] >= end_time

\* C15 witness: at an interval > 0 a probe overran by more than one interval
\* and exactly one tick followed it, at the instant it returned, before the
\* target returned.
C15_Witness ==
    \E p \in Probers :
        /\ Returned(p) /\ args.interval > 0
        /\ Len(trace[p]) = 2
        /\ trace[p][1][2] >= trace[p][1][1] + 2 * args.interval
        /\ trace[p][2][1] = trace[p][1][2]

\* C16: end_time is checked at the loop top only. A probe is sent only from
\* the loop top and only before end_time; a probe that returns, be it at or
\* after end_time, adds its sample and does not end the future; the future
\* ends only at the loop top, at or after end_time, adding nothing.
C16_EndCheckedAtLoopTop ==
    [][\A p \in Probers :
        /\ (pc[p] # "probing" /\ pc'[p] = "probing") =>
              pc[p] = "top" /\ now < end_time /\ tick'[p] = now
        /\ (pc[p] = "probing" /\ pc'[p] # "probing") =>
              /\ pings'[p] = Append(pings[p], [started_at |-> StartedAt(tick[p]),
                                                 rtt |-> result[p]])
              /\ tick[p] < end_time
              /\ pc'[p] \in {"top", "sleeping"}
        /\ (pc[p] # "done" /\ pc'[p] = "done") =>
              pc[p] = "top" /\ now >= end_time /\ pings'[p] = pings[p]
      ]_vars

\* C16 witness: a target has returned whose last probe was sent before
\* end_time and returned after it, and is its last sample.
C16_Witness ==
    \E p \in Probers :
        /\ Returned(p) /\ trace[p] # <<>>
        /\ Len(pings[p]) = Len(trace[p])
        /\ trace[p][Len(trace[p])][1] < end_time
        /\ trace[p][Len(trace[p])][2] > end_time
        /\ pings[p][Len(pings[p])].started_at = StartedAt(trace[p][Len(trace[p])][1])

\* The j-th (from 0) smallest of the values of the sequence a, by counting.
RefNth(a, j) ==
    CHOOSE v \in {a[i] : i \in 1..Len(a)} :
        /\ Cardinality({i \in 1..Len(a) : a[i] < v}) <= j
        /\ j < Cardinality({i \in 1..Len(a) : a[i] <= v})

\* C17: the row of a target with n samples, k >= 1 of them answered, has the
\* probe count n and, of the answered rtts in ascending order, the first as
\* min, the last as max, the one at index floor(k / 2) as median and the one
\* at index floor(k * 0.95) as p95.
C17_StatsAreReferenceValues ==
    summary # <<>> =>
        \A i \in 1..Len(summary[1]) :
            LET a == AnsweredOf(i)
                k == Len(a)
            IN /\ Row(i).pings = Len(PingsOf(i))
               /\ k >= 1 =>
                     /\ Row(i).min = RefNth(a, 0)
                     /\ Row(i).max = RefNth(a, k - 1)
                     /\ Row(i).median = RefNth(a, k \div 2)
                     /\ Row(i).per95 = RefNth(a, (k * 95) \div 100)

\* C17 witness: a row computed from pings not in ascending order of rtt,
\* with a timeout among them, whose min is below the median and whose p95 is
\* below the max.
C17_Witness ==
    /\ summary # <<>>
    /\ \E i \in 1..Len(summary[1]) :
          /\ Len(AnsweredOf(i)) < Len(PingsOf(i))
          /\ Len(AnsweredOf(i)) >= LongSamples - 1
          /\ Row(i).pings = Len(PingsOf(i))
          /\ AnsweredOf(i)[1] > AnsweredOf(i)[Len(AnsweredOf(i))]
          /\ Row(i).min < Row(i).median
          /\ Row(i).median <= Row(i).per95
          /\ Row(i).per95 < Row(i).max

\* C18: a step that ends a tick of target p (its probe returned) appends
\* exactly one sample to pings[p]; no step changes pings[p] in another way,
\* so no sample is ever modified or removed; the step changes the pings of no
\* other target nor the arguments, the output or the Report; start_time and
\* end_time never change once run has computed them; and the Report, once
\* built, never changes.
C18_TickAppendsOneSample ==
    [][/\ \A p \in Probers :
             /\ (pc[p] = "probing" /\ pc'[p] # "probing") =>
                   /\ Len(pings'[p]) = Len(pings[p]) + 1
                   /\ SubSeq(pings'[p], 1, Len(pings[p])) = pings[p]
                   /\ \A q \in Probers \ {p} : pings'[q] = pings[q]
                   /\ UNCHANGED <<args, main_vars, run_vars>>
             /\ ~(pc[p] = "probing" /\ pc'[p] # "probing") => pings'[p] = pings[p]
       /\ main_pc \notin {"start", "resolved"} =>
             start_time' = start_time /\ end_time' = end_time
       /\ report # <<>> => report' = report
      ]_vars

\* C18 witness: two targets have returned with samples, more for the first,
\* and the instants are those run computed.
C18_Witness ==
    /\ N = 2 /\ Returned(1) /\ Returned(2)
    /\ Len(pings[1]) > Len(pings[2]) /\ Len(pings[2]) >= 1
    /\ end_time = start_time + DurationMs
    /\ report # <<>>

\* C19 as stated: the started_at of two adjacent samples of a target are at
\* least one interval apart, and when ping_target returns (interval > 0) the
\* target has at most ceil(duration / interval) samples.
C19_TicksAnIntervalApart ==
    \A p \in Probers :
        /\ \A i \in 1..(Len(pings[p]) - 1) :
              pings[p][i + 1].started_at - pings[p][i].started_at >= args.interval
        /\ (Returned(p) /\ args.interval > 0) =>
              (Len(pings[p]) - 1) * args.interval < DurationMs \/ Len(pings[p]) = 0

\* The instant before which every ping_target, and so run, returns.
WaitBound == end_time + Max(args.interval, args.timeout)

\* C20 as stated: every ping_target returns before end_time + max(interval,
\* timeout), and so does run.
C20_ReturnsBeforeBound ==
    /\ \A p \in Probers : Returned(p) => tick[p] < WaitBound
    /\ (report # <<>> /\ N >= 1) => now < WaitBound

\* C20 amended: a ping_target never returns before end_time; when interval or
\* timeout is positive every ping_target returns before end_time +
\* max(interval, timeout), and so does run: while run waits the clock stays
\* below that instant, and the Report is built below it.
C20_WaitBounded ==
    /\ \A p \in Probers : Returned(p) => tick[p] >= end_time
    /\ Max(args.interval, args.timeout) > 0 =>
          /\ \A p \in Probers : Returned(p) => tick[p] < WaitBound
          /\ main_pc = "running" => now < WaitBound
          /\ report # <<>> => now < WaitBound

\* C20 witness: run has returned the Report of a target that returned after
\* end_time, less than a Step before the bound.
C20_Witness ==
    /\ report # <<>>
    /\ \E p \in Probers :
          /\ Returned(p)
          /\ tick[p] > end_time
          /\ tick[p] + Step >= WaitBound
          /\ now = tick[p]
====
